---- MODULE Spec2Model ----
(***************************************************************************)
(* A model of the browser agent: the orchestrator loop of Agent.run with   *)
(* its Loop Guard, plan handling and history pruning (src/src/agent.py),   *)
(* and the element index of the accessibility scan used by the browser     *)
(* capabilities (src/src/accessibility.py, src/src/browser.py).            *)
(*                                                                         *)
(* The language model, the human operator and the page are the             *)
(* environment: every turn, tool call, dispatch outcome and page tree is   *)
(* drawn from a small set.                                                 *)
(***************************************************************************)
EXTENDS Integers, Sequences, FiniteSets, TLC

VARIABLES
    pc,                     \* position of the control flow
    profile,                \* what the model of this task sends (see Profiles)
    i,                      \* loop index of Agent.run
    role,                   \* mode selected in the current iteration
    history, plan, notes, has_planned,
    last_action, repeated_action_count,
    turn,                   \* ids of the tool calls of the current model turn
    k,                      \* position of the for loop over the turn's tool calls
    requests,               \* history: model requests issued by this run
    ev,                     \* history: what the last step did
    run_of,                 \* history: the current run of identical selections
    prune_in, prune_once,   \* the pure pruning function: its input, its first result
    snapshot, elements_map, \* the page's tree and the parser's element index
    issued, scan_no, click, \* history of the scans and of the last lookup
    pages, page,            \* the open tabs (context.pages) and the active one
    pending                 \* new tabs whose page handler has not finished

agent_vars == <<pc, profile, i, role, history, plan, notes, has_planned,
                last_action, repeated_action_count, turn, k, requests,
                ev, run_of>>
prune_vars == <<prune_in, prune_once>>
tab_vars == <<pages, page, pending>>
browser_vars == <<snapshot, elements_map, issued, scan_no, click, tab_vars>>
vars == <<agent_vars, prune_vars, browser_vars>>

----------------------------------------------------------------------------
(* Bounds of the model *)

\* Config.MAX_ITERATIONS (default 50), scaled down
MAX_ITERATIONS == 3
\* tool calls carried by one model turn
MaxCalls == 2
\* notes taken in one run of an "any" task: the model stops calling
\* mark_step_done and ask_user
MaxNotes == 2
\* scans of one browser session
MaxScans == 2
\* length of the histories given to the pure pruning function
MaxHist == 3

\* the token limit of _prune_history
TOKEN_LIMIT == 100000
\* the repetition count from which the Loop Guard overrides
LOOP_LIMIT == 3
\* _add_tool_result: the longest result kept whole, the characters kept of a
\* longer one, and the length of the marker put after them
RESULT_LIMIT == 20000
RESULT_KEEP == 2000
MARKER_LEN == 64
\* the cap of _traverse on registered elements (800), scaled down
ELEMENT_CAP == 3

----------------------------------------------------------------------------
(* Values *)

None == "None"
NoAction == <<None, <<>>>>

PlanChoices == {<<>>, <<"s1", "s2">>}

\* a node of the accessibility tree; strings are sequences of characters
Node(r, name, value, children) ==
    [role |-> r, name |-> name, value |-> value, children |-> children]
\* BrowserService.start: one tab, which is the active page
TabsAtStart == pages = <<1>> /\ page = 1 /\ pending = {}

\* the snapshot of a page without a tree
NoTree == Node(None, <<>>, <<>>, <<>>)

\* The arguments string of a tool call: a JSON text. Two texts that differ
\* only in white space (pad) carry the same payload; a text may be malformed.
NoArgs == [ok |-> FALSE, pad |-> 0, steps |-> <<>>, x |-> 0]
ArgString(pad, x) == [ok |-> TRUE, pad |-> pad, steps |-> <<>>, x |-> x]
ArgStrings == {ArgString(0, 1), ArgString(1, 1), ArgString(0, 2)}
PlanArgStrings == [ok : {TRUE}, pad : {0}, steps : PlanChoices, x : {0}]

\* json.loads: the payload without the white space; it raises on a malformed text
JsonValid(args_str) == args_str.ok
JsonLoads(args_str) == [steps |-> args_str.steps, x |-> args_str.x]
\* str(args): the payload's printed form
Str(args) == <<"steps", args.steps, "x", args.x>>

\* Agent.tools_map, with click_element standing for the browser capabilities
tools_map == {"mark_step_done", "finish_task", "ask_user", "click_element"}
ToolNames == tools_map \cup {"set_plan", "no_such_tool"}

\* What one dispatch of a tool can do: return a result, return a result that
\* reports an error, or raise.
Outcomes(fname) ==
    IF fname = "click_element" THEN {"ok", "error", "raise"}
    ELSE {"ok"}

\* Token costs (the tokenizer's count of content plus tool-call payload) of
\* the entries appended during a run: model turns, tool results and the short
\* corrective user messages.
AssistantCosts == {60000}
ResultCosts == {60000}
NudgeCosts == {10}

\* The tool calls a model turn can carry (name and arguments string). The
\* model is free to name any tool in any mode, and to send a malformed text.
\* A task is run against one of three models: "any" sends every kind of call,
\* "clicker" sends only click_element calls, with either of two element ids,
\* "marker" sends only mark_step_done calls and one plan.
Profiles == {"any", "clicker", "marker"}
ClickChoices == [name : {"click_element"}, arguments : ArgStrings]
MarkChoices ==
    {[name |-> "mark_step_done", arguments |-> ArgString(0, 1)],
     [name |-> "set_plan",
      arguments |-> [ok |-> TRUE, pad |-> 0, steps |-> <<"s1", "s2">>, x |-> 0]]}
AnyChoices ==
    [name : {"click_element", "mark_step_done", "ask_user", "no_such_tool",
             "finish_task"},
     arguments : {ArgString(0, 1)}]
        \cup [name : {"set_plan"}, arguments : PlanArgStrings]
        \cup [name : {"set_plan"}, arguments : {NoArgs}]
ToolCallChoices ==
    CASE profile = "clicker" -> ClickChoices
      [] profile = "marker" -> MarkChoices
      [] OTHER -> AnyChoices

----------------------------------------------------------------------------
(* History entries *)

\* A string: the text text, which names the tool tool (if any), followed by
\* hint, len characters in all, of which the first kept are held, followed by
\* the truncation marker when marker.
Sized(text, n) ==
    [text |-> text, tool |-> None, hint |-> "", len |-> n, kept |-> n,
     marker |-> FALSE]
\* f"... {fname} ..."
Naming(str, fname) == [str EXCEPT !.tool = fname]
\* len(string)
StrLength(str) == str.kept + (IF str.marker THEN MARKER_LEN ELSE 0)
\* the short strings of the program
Result(text) == Sized(text, 100)

AssistantMsg(ids, t) ==
    [role |-> "assistant", tool_calls |-> ids, tool_call_id |-> 0,
     content |-> Result("thought"), tokens |-> t]
ToolMsg(id, result, t) ==
    [role |-> "tool", tool_calls |-> <<>>, tool_call_id |-> id,
     content |-> result, tokens |-> t]
UserMsg(text, t) ==
    [role |-> "user", tool_calls |-> <<>>, tool_call_id |-> 0,
     content |-> Result(text), tokens |-> t]

\* len(enc.encode(msg_content)) of _prune_history
MsgTokens(msg) == msg.tokens

Reversed(s) == [j \in 1..Len(s) |-> s[Len(s) + 1 - j]]

\* The loop of _prune_history over reversed(self.history): n is the position
\* of the entry looked at, kept_messages holds the kept entries newest first.
RECURSIVE PruneWalk(_, _, _, _)
PruneWalk_ge(h, n, total_tokens, kept_messages) ==
    IF n = 0 THEN kept_messages
    ELSE IF total_tokens + MsgTokens(h[n]) >= TOKEN_LIMIT THEN kept_messages
    ELSE PruneWalk(h, n - 1, total_tokens + MsgTokens(h[n]),
                   Append(kept_messages, h[n]))
PruneWalk(h, n, total_tokens, kept_messages) ==
    IF n = 0 THEN kept_messages
    ELSE IF total_tokens + MsgTokens(h[n]) > TOKEN_LIMIT THEN kept_messages
    ELSE PruneWalk(h, n - 1, total_tokens + MsgTokens(h[n]),
                   Append(kept_messages, h[n]))

PruneHistory_noreverse(h) == PruneWalk(h, Len(h), 0, <<>>)
PruneHistory(h) == Reversed(PruneWalk(h, Len(h), 0, <<>>))

----------------------------------------------------------------------------
(* Results of tool calls *)

OVERRIDE == "SYSTEM OVERRIDE"
NOT_FOUND == "Error: Tool not found"
EXCEPTION == "Error executing"

\* the result string of a tool that returned
ToolResult(fname, out) ==
    CASE fname = "mark_step_done" -> "Step marked done."
      [] fname = "ask_user" -> "User Answer"
      [] fname = "finish_task" -> "Finished."
      [] fname = "click_element" /\ out = "ok" -> "Clicked"
      [] OTHER -> "Error: ID not found"

\* "Error" in str(result) or "fail" in str(result).lower()
SignalsFailure(text) == text \in {NOT_FOUND, "Error: ID not found"}

GetErrorHint(fname, text) ==
    IF fname = "click_element" THEN "ADAPTIVE STRATEGY: Click failed" ELSE ""

HintLen(hint) == IF hint = "" THEN 0 ELSE 150

\* result += self._get_error_hint(fname, str(result))
WithHint(fname, text) ==
    IF SignalsFailure(text)
    THEN [Result(text) EXCEPT
            !.hint = GetErrorHint(fname, text),
            !.len = @ + HintLen(GetErrorHint(fname, text)),
            !.kept = @ + HintLen(GetErrorHint(fname, text))]
    ELSE Result(text)

\* result[:2000] + marker when len(result) > 20000
Truncate_keep_limit(result) ==
    IF StrLength(result) > RESULT_LIMIT
    THEN [result EXCEPT !.kept = RESULT_LIMIT, !.marker = TRUE]
    ELSE result
Truncate(result) ==
    IF StrLength(result) > RESULT_LIMIT
    THEN [result EXCEPT !.kept = RESULT_KEEP, !.marker = TRUE]
    ELSE result

AddToolResult_front(h, tool_id, result, t) ==
    <<ToolMsg(tool_id, Truncate(result), t)>> \o h
AddToolResult(h, tool_id, result, t) ==
    Append(h, ToolMsg(tool_id, Truncate(result), t))

----------------------------------------------------------------------------
(* Agent.run *)

Role_plan_only(p, planned) == IF p = <<>> THEN "PLANNER" ELSE "WORKER"
Role(p, planned) == IF p = <<>> /\ ~planned THEN "PLANNER" ELSE "WORKER"

LoopNext_forever(n) == "loop"
\* where the for loop over range(MAX_ITERATIONS) goes after iteration n
LoopNext(n) == IF n + 1 < MAX_ITERATIONS THEN "loop" ELSE "aborted"

\* history variables: the last step, and the current run of consecutive
\* selections of one action fingerprint (fresh: the run began with a selection
\* that differed from the recorded last action; len: the selections so far;
\* first_rec: the first of them whose dispatch did not raise, 0 if none;
\* out: what became of the latest; prev: up to the first selection of a task,
\* the last action recorded by the task before)
Event(kind, id, out, steps) ==
    [kind |-> kind, id |-> id, out |-> out, steps |-> steps, old |-> <<>>]
NoRun ==
    [act |-> NoAction, fresh |-> TRUE, len |-> 0, first_rec |-> 0, out |-> None,
     prev |-> NoAction]

Init ==
    /\ pc = "idle" /\ profile = "any" /\ i = 0 /\ role = None
    /\ history = <<>> /\ plan = <<>> /\ notes = <<>> /\ has_planned = FALSE
    /\ last_action = NoAction /\ repeated_action_count = 0
    /\ turn = <<>> /\ k = 1 /\ requests = 0
    /\ ev = Event("init", 0, None, <<>>) /\ run_of = NoRun
    /\ prune_in = <<>> /\ prune_once = <<>>
    /\ snapshot = NoTree /\ elements_map = <<>> /\ issued = <<>> /\ scan_no = 0
    /\ click = None
    /\ TabsAtStart

Run_keeps_guard ==
    /\ pc \in {"idle", "done", "aborted"}
    /\ profile' \in Profiles
    /\ plan' = <<>> /\ history' = <<>> /\ notes' = <<>> /\ has_planned' = FALSE
    /\ i' = 0 /\ pc' = IF MAX_ITERATIONS > 0 THEN "loop" ELSE "aborted"
    /\ requests' = 0 /\ turn' = <<>> /\ k' = 1 /\ role' = None
    /\ ev' = Event("run", 0, None, <<>>)
    /\ run_of' = [NoRun EXCEPT !.prev = last_action]
    /\ UNCHANGED <<last_action, repeated_action_count, prune_vars, browser_vars>>

\* Agent.run up to the loop: the per-task state is reset. main.py runs one
\* task after another on the same agent.
Run ==
    /\ pc \in {"idle", "done", "aborted"}
    /\ profile' \in Profiles
    /\ plan' = <<>> /\ history' = <<>> /\ notes' = <<>> /\ has_planned' = FALSE
    /\ last_action' = NoAction /\ repeated_action_count' = 0
    /\ i' = 0 /\ pc' = IF MAX_ITERATIONS > 0 THEN "loop" ELSE "aborted"
    /\ requests' = 0 /\ turn' = <<>> /\ k' = 1 /\ role' = None
    /\ ev' = Event("run", 0, None, <<>>)
    /\ run_of' = [NoRun EXCEPT !.prev = last_action]
    /\ UNCHANGED <<prune_vars, browser_vars>>

ApiError_abort ==
    /\ pc = "loop"
    /\ history' = PruneHistory(history)
    /\ role' = Role(plan, has_planned)
    /\ requests' = requests + 1
    /\ i' = i + 1 /\ pc' = "aborted"
    /\ ev' = Event("api_error", 0, None, <<>>)
    /\ UNCHANGED <<profile, plan, notes, has_planned, last_action,
                   repeated_action_count, turn, k, run_of, prune_vars, browser_vars>>

\* One iteration whose model request fails: sleep and continue
ApiError ==
    /\ pc = "loop"
    /\ history' = PruneHistory(history)
    /\ role' = Role(plan, has_planned)
    /\ requests' = requests + 1
    /\ i' = i + 1 /\ pc' = LoopNext(i)
    /\ ev' = Event("api_error", 0, None, <<>>)
    /\ UNCHANGED <<profile, plan, notes, has_planned, last_action,
                   repeated_action_count, turn, k, run_of, prune_vars, browser_vars>>

Nudge_worker(r) == "Action required. Please call a tool to proceed."
Nudge(r) ==
    IF r = "PLANNER" THEN "You must call 'set_plan' or 'ask_user'."
    ELSE "Action required. Please call a tool to proceed."

\* One iteration whose model turn carries no tool call
NoToolCalls ==
    /\ pc = "loop"
    /\ \E t \in AssistantCosts, u \in NudgeCosts :
         history' = PruneHistory(history)
                        \o <<AssistantMsg(<<>>, t),
                             UserMsg(Nudge(Role(plan, has_planned)), u)>>
    /\ role' = Role(plan, has_planned)
    /\ requests' = requests + 1
    /\ i' = i + 1 /\ pc' = LoopNext(i)
    /\ turn' = <<>> /\ k' = 1
    /\ ev' = Event("nudge", 0, None, <<>>)
    /\ UNCHANGED <<profile, plan, notes, has_planned, last_action,
                   repeated_action_count, run_of, prune_vars, browser_vars>>

\* ids of the n tool calls of the turn of iteration it
TurnIds(it, n) == [j \in 1..n |-> 10 * (it + 1) + j]

\* One iteration up to the for loop over msg.tool_calls: the turn carries n
\* tool calls. What each call names is read when the for loop reaches it.
ModelTurn ==
    /\ pc = "loop"
    /\ \E n \in 1..MaxCalls, t \in AssistantCosts :
         /\ history' = Append(PruneHistory(history), AssistantMsg(TurnIds(i, n), t))
         /\ turn' = TurnIds(i, n)
    /\ k' = 1
    /\ role' = Role(plan, has_planned)
    /\ requests' = requests + 1
    /\ pc' = "calls"
    /\ ev' = Event("turn", 0, None, <<>>)
    /\ UNCHANGED <<profile, i, plan, notes, has_planned, last_action,
                   repeated_action_count, run_of, prune_vars, browser_vars>>

\* the for loop over msg.tool_calls moves on; after the last call the
\* iteration is over
NextCall ==
    /\ k' = k + 1
    /\ IF k = Len(turn)
       THEN i' = i + 1 /\ pc' = LoopNext(i)
       ELSE UNCHANGED <<i, pc>>

CallMalformed_uncaught ==
    /\ pc = "calls"
    /\ \E tool_call \in ToolCallChoices :
         /\ ~JsonValid(tool_call.arguments)
         /\ ev' = Event("malformed", turn[k], tool_call.name, <<>>)
    /\ pc' = "aborted" /\ i' = MAX_ITERATIONS
    /\ requests' = MAX_ITERATIONS
    /\ UNCHANGED <<profile, role, history, plan, notes, has_planned, last_action,
                   repeated_action_count, turn, k, run_of,
                   prune_vars, browser_vars>>

\* json.loads raises: the call gets the error result
CallMalformed ==
    /\ pc = "calls"
    /\ \E tool_call \in ToolCallChoices, t \in ResultCosts :
         /\ ~JsonValid(tool_call.arguments)
         /\ history' = AddToolResult(history, turn[k],
                                     Naming(Result(EXCEPTION), tool_call.name), t)
         /\ ev' = Event("malformed", turn[k], tool_call.name, <<>>)
    /\ NextCall
    /\ UNCHANGED <<profile, role, plan, notes, has_planned, last_action,
                   repeated_action_count, turn, requests, run_of,
                   prune_vars, browser_vars>>

SetPlanSteps_extend(old, args) == old \o args.steps
SetPlanSteps(old, args) == args.steps

CallSetPlan_planner_only ==
    /\ pc = "calls"
    /\ \E tool_call \in ToolCallChoices :
         /\ JsonValid(tool_call.arguments)
         /\ tool_call.name = "set_plan"
         /\ plan' = IF role = "PLANNER"
                    THEN SetPlanSteps(plan, JsonLoads(tool_call.arguments))
                    ELSE plan
         /\ ev' = [Event("set_plan", turn[k], None, JsonLoads(tool_call.arguments).steps)
                    EXCEPT !.old = plan]
    /\ history' = IF role = "PLANNER" THEN <<>> ELSE history
    /\ has_planned' = TRUE
    /\ i' = i + 1 /\ pc' = LoopNext(i)
    /\ UNCHANGED <<profile, role, notes, last_action, repeated_action_count,
                   turn, k, requests, run_of, prune_vars, browser_vars>>

\* set_plan: the plan is replaced, the history wiped, the for loop left
CallSetPlan ==
    /\ pc = "calls"
    /\ \E tool_call \in ToolCallChoices :
         /\ JsonValid(tool_call.arguments)
         /\ tool_call.name = "set_plan"
         /\ plan' = SetPlanSteps(plan, JsonLoads(tool_call.arguments))
         /\ ev' = [Event("set_plan", turn[k], None, JsonLoads(tool_call.arguments).steps)
                    EXCEPT !.old = plan]
    /\ history' = <<>>
    /\ has_planned' = TRUE
    /\ i' = i + 1 /\ pc' = LoopNext(i)
    /\ UNCHANGED <<profile, role, notes, last_action, repeated_action_count,
                   turn, k, requests, run_of, prune_vars, browser_vars>>

CallFinishTask_dispatch ==
    /\ pc = "calls"
    /\ \E tool_call \in ToolCallChoices, t \in ResultCosts :
         /\ JsonValid(tool_call.arguments)
         /\ tool_call.name = "finish_task"
         /\ history' = AddToolResult(history, turn[k], Result("Finished."), t)
    /\ ev' = Event("finish", turn[k], None, <<>>)
    /\ NextCall
    /\ UNCHANGED <<profile, role, plan, notes, has_planned,
                   last_action, repeated_action_count, turn, requests,
                   run_of, prune_vars, browser_vars>>

\* finish_task: run returns
CallFinishTask ==
    /\ pc = "calls"
    /\ \E tool_call \in ToolCallChoices :
         /\ JsonValid(tool_call.arguments)
         /\ tool_call.name = "finish_task"
    /\ pc' = "done"
    /\ ev' = Event("finish", turn[k], None, <<>>)
    /\ UNCHANGED <<profile, i, role, history, plan, notes, has_planned,
                   last_action, repeated_action_count, turn, k, requests,
                   run_of, prune_vars, browser_vars>>

\* the Loop Guard
RepeatCount(current_action, last, count) ==
    IF current_action = last THEN count + 1 ELSE 0

LoopGuardTrips_early(count) == count >= LOOP_LIMIT - 1
LoopGuardTrips(count) == count >= LOOP_LIMIT

\* _tool_mark_done and _tool_ask_user
PlanAfter_pop_last(fname, p) ==
    IF fname = "mark_step_done" /\ p # <<>> THEN SubSeq(p, 1, Len(p) - 1) ELSE p
PlanAfter(fname, p) ==
    IF fname = "mark_step_done" /\ p # <<>> THEN Tail(p) ELSE p
NotesAfter_front(fname, ns) ==
    CASE fname = "mark_step_done" -> <<"Step done">> \o ns
      [] fname = "ask_user" -> <<"User Clarification">> \o ns
      [] OTHER -> ns
NotesAfter(fname, ns) ==
    CASE fname = "mark_step_done" -> Append(ns, "Step done")
      [] fname = "ask_user" -> Append(ns, "User Clarification")
      [] OTHER -> ns

RunAfter(current_action, last, out) ==
    IF run_of.len > 0 /\ run_of.act = current_action
    THEN [run_of EXCEPT !.len = @ + 1, !.out = out,
                        !.first_rec = IF @ = 0 /\ out # "raise"
                                      THEN run_of.len + 1 ELSE @,
                        !.prev = NoAction]
    ELSE [act |-> current_action, fresh |-> current_action # last, len |-> 1,
          first_rec |-> IF out # "raise" THEN 1 ELSE 0, out |-> out,
          prev |-> IF run_of.len = 0 THEN run_of.prev ELSE NoAction]

\* Any other call: fingerprint, Loop Guard, dispatch, result
CallAction ==
    /\ pc = "calls"
    /\ \E tool_call \in ToolCallChoices, t \in ResultCosts :
         LET fname == tool_call.name
             args == JsonLoads(tool_call.arguments)
             current_action == <<fname, Str(args)>>
             count == RepeatCount(current_action, last_action, repeated_action_count)
         IN  /\ JsonValid(tool_call.arguments)
             /\ fname \notin {"set_plan", "finish_task"}
             /\ (profile = "any" /\ fname \in {"mark_step_done", "ask_user"})
                    => Len(notes) < MaxNotes
             /\ repeated_action_count' = count
             /\ IF LoopGuardTrips(count)
                THEN /\ history' = AddToolResult(history, turn[k], WithHint(fname, OVERRIDE), t)
                     /\ last_action' = current_action
                     /\ ev' = Event("call", turn[k], "override", <<>>)
                     /\ run_of' = RunAfter(current_action, last_action, "override")
                     /\ UNCHANGED <<plan, notes>>
                ELSE IF fname \in tools_map
                THEN \E out \in Outcomes(fname) :
                       /\ ev' = Event("call", turn[k], out, <<>>)
                       /\ run_of' = RunAfter(current_action, last_action, out)
                       /\ IF out = "raise"
                          THEN /\ history' = AddToolResult(history, turn[k],
                                                 Naming(Result(EXCEPTION), fname), t)
                               /\ UNCHANGED <<plan, notes, last_action>>
                          ELSE /\ plan' = PlanAfter(fname, plan)
                               /\ notes' = NotesAfter(fname, notes)
                               /\ history' = AddToolResult(history, turn[k],
                                                 WithHint(fname, ToolResult(fname, out)), t)
                               /\ last_action' = current_action
                ELSE /\ history' = AddToolResult(history, turn[k],
                                       Naming(WithHint(fname, NOT_FOUND), fname), t)
                     /\ last_action' = current_action
                     /\ ev' = Event("call", turn[k], "notfound", <<>>)
                     /\ run_of' = RunAfter(current_action, last_action, "notfound")
                     /\ UNCHANGED <<plan, notes>>
    /\ NextCall
    /\ UNCHANGED <<profile, role, has_planned, turn, requests, prune_vars, browser_vars>>

Next ==
    \/ Run
    \/ ApiError
    \/ NoToolCalls
    \/ ModelTurn
    \/ CallMalformed
    \/ CallSetPlan
    \/ CallFinishTask
    \/ CallAction

Spec == Init /\ [][Next]_vars

\* The coroutine of a started run is scheduled until it returns: every
\* awaited call (model request, tool, sleep) is taken to return.
RunStep ==
    \/ ApiError
    \/ NoToolCalls
    \/ ModelTurn
    \/ CallMalformed
    \/ CallSetPlan
    \/ CallFinishTask
    \/ CallAction

FairSpec == Init /\ [][Next]_vars /\ WF_vars(RunStep)

----------------------------------------------------------------------------
(* The Loop Guard *)

C2_CounterCountsRepeats ==
    run_of.len > 0 =>
        /\ repeated_action_count = run_of.len - 1
        /\ run_of.len = 1 => run_of.out # "override"

----------------------------------------------------------------------------
(* set_plan *)

\* C4: right after a set_plan call with valid arguments is processed the
\* history is empty, the plan is exactly the supplied steps, has_planned is
\* set, and the for loop over the turn's calls has been left, so that no
\* result is recorded for set_plan or for a call after it.
C4_SetPlanResetsContext ==
    ev.kind = "set_plan" =>
        /\ history = <<>>
        /\ plan = ev.steps
        /\ has_planned
        /\ pc \in {"loop", "aborted"}
        /\ turn[k] = ev.id

C4_Witness ==
    /\ ev.kind = "set_plan" /\ ev.old # <<>> /\ ev.steps # <<>>
    /\ k < Len(turn) /\ pc = "loop"

----------------------------------------------------------------------------
(* Failed model requests and the iteration budget *)

\* C5 as stated: after a failed model request the loop issues another
\* request, however many requests have failed.
C5_FailureNeverEndsTheTask == ev.kind = "api_error" => pc = "loop"

\* C5 as amended: a failed model request uses up one iteration and changes
\* nothing else: the plan, the notes, has_planned and the Loop Guard state stay,
\* the history is the pruned history the failed request carried, and the loop
\* goes on to the next iteration unless this was the last of MAX_ITERATIONS,
\* in which case run ends (ABORTED).
C5_FailureUsesOneIteration ==
    [][ev'.kind = "api_error" =>
          /\ history' = PruneHistory(history)
          /\ plan' = plan /\ notes' = notes /\ has_planned' = has_planned
          /\ last_action' = last_action
          /\ repeated_action_count' = repeated_action_count
          /\ i' = i + 1
          /\ pc' = IF i + 1 < MAX_ITERATIONS THEN "loop" ELSE "aborted"]_vars

C5_Witness ==
    /\ ev.kind = "api_error" /\ pc = "loop"
    /\ history # <<>> /\ last_action # NoAction

Running == pc \in {"loop", "calls"}

\* how far a run has got: iterations done, then calls of the turn processed
Progress ==
    IF Running
    THEN i * (MaxCalls + 1) + (IF pc = "calls" THEN k ELSE 0)
    ELSE (MAX_ITERATIONS + 1) * (MaxCalls + 1)

C6_Budget ==
    /\ requests <= MAX_ITERATIONS
    /\ pc = "loop" => i < MAX_ITERATIONS /\ requests = i
    /\ pc = "calls" => i < MAX_ITERATIONS /\ requests = i + 1 /\ k <= Len(turn)
    /\ pc = "aborted" =>
          i = MAX_ITERATIONS /\ requests = MAX_ITERATIONS /\ ev.kind # "finish"
    /\ pc = "done" => ev.kind = "finish"
    /\ Running => ENABLED RunStep

\* C6: a run issues at most MAX_ITERATIONS model requests; while it runs it
\* can always take a step and every step takes it further through the bounded
\* loop, so it ends; and when it ends without a finish_task it has returned
\* (ABORTED) after exactly MAX_ITERATIONS iterations, with nothing retried.
C6_RunEndsWithinBudget ==
    /\ []C6_Budget
    /\ [][Running => Progress' > Progress]_vars

C6_Witness == pc = "aborted" /\ requests = MAX_ITERATIONS /\ ev.kind = "call"

----------------------------------------------------------------------------
(* Tool results *)

\* C10: while and after the calls of a turn are processed (no set_plan or
\* finish_task with valid arguments among them), the history ends with the
\* turn's assistant entry followed by one tool result for each call processed
\* so far, in call order and with the call's id, whatever became of the call;
\* so a call is reached only when the results of all calls before it are in.
C10_ResultsInCallOrder ==
    (pc = "calls" \/ ev.kind \in {"call", "malformed"}) =>
        LET n == k - 1
            base == Len(history) - n
        IN  /\ base >= 1
            /\ history[base].role = "assistant"
            /\ history[base].tool_calls = turn
            /\ \A j \in 1..n :
                  /\ history[base + j].role = "tool"
                  /\ history[base + j].tool_call_id = turn[j]

C10_Witness ==
    /\ pc # "calls" /\ ev.kind = "call" /\ Len(turn) >= 2 /\ k = Len(turn) + 1
    /\ history[Len(history) - 1].content.text = EXCEPTION
    /\ history[Len(history)].content.text = NOT_FOUND

\* the step is the handling of a call with malformed arguments
IsMalformedStep == pc = "calls" /\ ev'.kind = "malformed"
\* the step is the handling (past the Loop Guard) of a call naming no tool
IsUnknownToolStep ==
    pc = "calls" /\ ev'.kind = "call" /\ run_of'.act[1] \notin tools_map

\* the step appends exactly one tool result to the history, for the call at k
AppendsOneResult ==
    /\ Len(history') = Len(history) + 1
    /\ SubSeq(history', 1, Len(history)) = history
    /\ history'[Len(history')].role = "tool"
    /\ history'[Len(history')].tool_call_id = turn[k]

\* the for loop goes on to the next call, or the run loop to the next
\* iteration (to the end of run when the iterations are used up)
GoesOn ==
    /\ k' = k + 1
    /\ IF k < Len(turn) THEN pc' = "calls" /\ i' = i
       ELSE i' = i + 1 /\ pc' = IF i + 1 < MAX_ITERATIONS THEN "loop" ELSE "aborted"

\* C16 as stated: the result of a call that names no tool of the dispatch
\* table is the not-found error naming the tool.
C16_UnknownToolGetsNotFound ==
    (ev.kind = "call" /\ run_of.act[1] \notin tools_map) =>
        /\ history[Len(history)].content.text = NOT_FOUND
        /\ history[Len(history)].content.tool = run_of.act[1]

\* C16 as amended: a call with malformed arguments gets one result, the
\* error text naming the tool; a call naming no tool of the dispatch table
\* gets one result, the not-found error naming the tool, or the SYSTEM
\* OVERRIDE text when the Loop Guard trips on it (from its third consecutive
\* repeat). Either way plan, notes and has_planned stay and the loop goes on.
C16_BadCallsDegradeToResults ==
    /\ [][IsMalformedStep =>
            /\ AppendsOneResult /\ GoesOn
            /\ history'[Len(history')].content.text = EXCEPTION
            /\ history'[Len(history')].content.tool = ev'.out
            /\ plan' = plan /\ notes' = notes /\ has_planned' = has_planned]_vars
    /\ [][IsUnknownToolStep =>
            /\ AppendsOneResult /\ GoesOn
            /\ IF repeated_action_count' >= LOOP_LIMIT
               THEN history'[Len(history')].content.text = OVERRIDE
               ELSE /\ history'[Len(history')].content.text = NOT_FOUND
                    /\ history'[Len(history')].content.tool = run_of'.act[1]
            /\ plan' = plan /\ notes' = notes /\ has_planned' = has_planned]_vars

C16_Witness ==
    /\ ev.kind = "malformed" /\ ev.out = "set_plan" /\ pc = "loop"
    /\ plan # <<>> /\ notes # <<>>
    /\ history[Len(history)].content.text = EXCEPTION

----------------------------------------------------------------------------
(* mark_step_done *)

\* the step is the handling (past the Loop Guard) of a mark_step_done call
IsMarkStep ==
    pc = "calls" /\ ev'.kind = "call" /\ run_of'.act[1] = "mark_step_done"

----------------------------------------------------------------------------
(* Notes *)

\* the step is a dispatch of mark_step_done or ask_user that returned
IsNoteStep ==
    /\ pc = "calls" /\ ev'.kind = "call" /\ ev'.out = "ok"
    /\ run_of'.act[1] \in {"mark_step_done", "ask_user"}

\* C18: from the start of a task to its end every step leaves the notes as
\* they are or puts one note after them, and only a returned mark_step_done
\* or ask_user does the latter; set_plan (which wipes the history), the
\* iterations' pruning, failed model requests, turns without calls, and
\* calls that are malformed, unknown, overridden, failed or that raised leave
\* the notes unchanged.
C18_NotesAppendOnly ==
    /\ [][ev'.kind # "run" =>
            \/ notes' = notes
            \/ /\ IsNoteStep
               /\ Len(notes') = Len(notes) + 1
               /\ SubSeq(notes', 1, Len(notes)) = notes]_vars
    /\ [][(\/ ev'.kind \in {"set_plan", "api_error", "nudge", "turn",
                             "malformed", "finish"}
           \/ ev'.kind = "call" /\ ev'.out # "ok") => notes' = notes]_vars

C18_Witness ==
    /\ ev.kind = "set_plan" /\ ev.old # <<>> /\ history = <<>>
    /\ notes = <<"Step done", "User Clarification">>

----------------------------------------------------------------------------
(* One task after another *)

\* C20: the start of a run resets history, plan, notes, has_planned, the last
\* action and the repetition counter, whatever the task before left in them;
\* so the first iteration of every task finds history and notes empty and is
\* in PLANNER mode, and the first action selected in a task is handled with
\* the counter at zero and is not overridden, also when it equals the last
\* action of the task before.
C20_TasksAreIsolated ==
    /\ [][ev'.kind = "run" =>
            /\ history' = <<>> /\ plan' = <<>> /\ notes' = <<>>
            /\ ~has_planned'
            /\ last_action' = NoAction /\ repeated_action_count' = 0]_vars
    /\ [][(pc = "loop" /\ i = 0 /\ requests' = requests + 1) =>
            /\ history = <<>> /\ notes = <<>>
            /\ role' = "PLANNER"]_vars
    /\ [](run_of.prev # NoAction =>
            /\ repeated_action_count = 0
            /\ run_of.len <= 1
            /\ run_of.out # "override")

C20_Witness ==
    /\ ev.kind = "call" /\ ev.out = "ok"
    /\ run_of.len = 1 /\ run_of.prev = run_of.act
    /\ last_action = run_of.act /\ repeated_action_count = 0

----------------------------------------------------------------------------
(* finish_task *)

\* C11: a finish_task call with valid arguments makes run return at once, in
\* either mode: the step that reaches it ends the run (DONE) without touching
\* history, plan, notes or the request count and without a result for it or
\* for a later call of the turn; and a run that has returned takes no further
\* step (no model request, no dispatch) until run is called for the next task.
C11_FinishTaskReturnsAtOnce ==
    /\ [][(pc = "calls" /\ ev'.kind = "finish") =>
            /\ pc' = "done"
            /\ history' = history /\ plan' = plan /\ notes' = notes
            /\ requests' = requests /\ k' = k /\ i' = i]_vars
    /\ [](pc = "done" => ev.kind = "finish" /\ ~ENABLED RunStep)

C11_Witness ==
    /\ pc = "done" /\ ev.kind = "finish" /\ role = "PLANNER"
    /\ k = 1 /\ Len(turn) >= 2 /\ i < MAX_ITERATIONS - 1

----------------------------------------------------------------------------
(* Modes *)

\* C12: every iteration (every model request) selects PLANNER exactly when
\* the plan is empty and no plan has been committed in this task, and WORKER
\* otherwise; a processed set_plan commits, and the commitment stays until
\* the next task starts, so every later iteration of the task is in WORKER
\* mode, also when the plan has been drained.
C12_ModeSelectionOneWay ==
    /\ [][requests' = requests + 1 =>
            /\ role' \in {"PLANNER", "WORKER"}
            /\ role' = "PLANNER" <=> (plan = <<>> /\ ~has_planned)]_vars
    /\ [][ev'.kind = "set_plan" => has_planned']_vars
    /\ [][(has_planned /\ ev'.kind # "run") => has_planned']_vars
    /\ [][(has_planned /\ requests' = requests + 1) => role' = "WORKER"]_vars

C12_Witness ==
    /\ pc = "calls" /\ ev.kind = "turn" /\ role = "WORKER"
    /\ has_planned /\ plan = <<>> /\ Len(notes) = 2

----------------------------------------------------------------------------
(* _prune_history as a function of the history *)

\* token costs of the entries of the histories given to the function: nothing,
\* one token, half the limit, the limit, more than the limit
PruneCosts == {0, 1, TOKEN_LIMIT \div 2, TOKEN_LIMIT, TOKEN_LIMIT + 1}

\* a history whose entries cost cs[1], cs[2], ...; entry j carries id j
HistoryOf(cs) == [j \in 1..Len(cs) |-> ToolMsg(j, Result("Clicked"), cs[j])]

PruneInit ==
    /\ pc = "prune0" /\ profile = "any" /\ i = 0 /\ role = None
    /\ \E n \in 0..MaxHist : \E cs \in [1..n -> PruneCosts] :
         /\ history = HistoryOf(cs)
         /\ prune_in = HistoryOf(cs)
    /\ prune_once = <<>>
    /\ plan = <<>> /\ notes = <<>> /\ has_planned = FALSE
    /\ last_action = NoAction /\ repeated_action_count = 0
    /\ turn = <<>> /\ k = 1 /\ requests = 0
    /\ ev = Event("init", 0, None, <<>>) /\ run_of = NoRun
    /\ snapshot = NoTree /\ elements_map = <<>> /\ issued = <<>> /\ scan_no = 0
    /\ click = None
    /\ TabsAtStart

\* self._prune_history()
Prune ==
    /\ pc = "prune0"
    /\ history' = PruneHistory(history)
    /\ prune_once' = PruneHistory(history)
    /\ pc' = "prune1"
    /\ UNCHANGED <<profile, i, role, plan, notes, has_planned, last_action,
                   repeated_action_count, turn, k, requests, ev, run_of,
                   prune_in, browser_vars>>

\* self._prune_history() once more
PruneAgain ==
    /\ pc = "prune1"
    /\ history' = PruneHistory(history)
    /\ pc' = "prune2"
    /\ UNCHANGED <<profile, i, role, plan, notes, has_planned, last_action,
                   repeated_action_count, turn, k, requests, ev, run_of,
                   prune_vars, browser_vars>>

PruneNext == Prune \/ PruneAgain

PruneSpec == PruneInit /\ [][PruneNext]_vars

RECURSIVE SumTokens(_)
SumTokens(h) == IF h = <<>> THEN 0 ELSE MsgTokens(Head(h)) + SumTokens(Tail(h))

Suffix(h, n) == SubSeq(h, Len(h) - n + 1, Len(h))
Last(h) == h[Len(h)]

C8_PruneIdempotent == pc = "prune2" => history = prune_once

C8_Witness ==
    /\ pc = "prune2" /\ Len(history) >= 2 /\ Len(history) < Len(prune_in)

\* C9: the pruned history is the longest suffix of the input whose token
\* costs sum to at most the limit: it is a suffix of the input (entries in
\* their order, none dropped after a kept one), its sum is within the limit,
\* and the suffix one entry longer is over the limit.
C9_LongestSuffixWithinLimit ==
    pc = "prune1" =>
        /\ Len(history) <= Len(prune_in)
        /\ history = Suffix(prune_in, Len(history))
        /\ SumTokens(history) <= TOKEN_LIMIT
        /\ Len(history) < Len(prune_in) =>
               SumTokens(Suffix(prune_in, Len(history) + 1)) > TOKEN_LIMIT

C9_Witness ==
    /\ pc = "prune1" /\ Len(history) = 2 /\ Len(prune_in) = 3
    /\ SumTokens(history) = TOKEN_LIMIT

----------------------------------------------------------------------------
(* _add_tool_result as a function of the history and the result *)

\* lengths of the results given to the function, around RESULT_KEEP and
\* RESULT_LIMIT
ResultLens ==
    {0, RESULT_KEEP, RESULT_KEEP + 1, RESULT_LIMIT - 1, RESULT_LIMIT,
     RESULT_LIMIT + 1, RESULT_LIMIT + RESULT_KEEP}

\* the results: a page report, or an error text with its hint
ResultsOfLen(n) ==
    {Sized("Interactive Elements", n),
     [Sized("Error scanning page", n) EXCEPT !.hint = "ADAPTIVE STRATEGY"]}

ResultInit ==
    /\ pc = "add0" /\ profile = "any" /\ i = 0 /\ role = None
    /\ \E n \in 0..MaxHist : \E cs \in [1..n -> PruneCosts] :
         /\ history = HistoryOf(cs)
         /\ prune_in = HistoryOf(cs)
    /\ prune_once = <<>>
    /\ plan = <<>> /\ notes = <<>> /\ has_planned = FALSE
    /\ last_action = NoAction /\ repeated_action_count = 0
    /\ turn = <<>> /\ k = 1 /\ requests = 0
    /\ ev = Event("init", 0, None, <<>>) /\ run_of = NoRun
    /\ snapshot = NoTree /\ elements_map = <<>> /\ issued = <<>> /\ scan_no = 0
    /\ click = None
    /\ TabsAtStart

\* self._add_tool_result(tool_call.id, str(result))
AddResult ==
    /\ pc = "add0"
    /\ \E n \in ResultLens, t \in ResultCosts : \E result \in ResultsOfLen(n) :
         history' = AddToolResult(history, Len(history) + 1, result, t)
    /\ pc' = "add1"
    /\ UNCHANGED <<profile, i, role, plan, notes, has_planned, last_action,
                   repeated_action_count, turn, k, requests, ev, run_of,
                   prune_vars, browser_vars>>

ResultSpec == ResultInit /\ [][AddResult]_vars

\* C15: every tool-result entry of the history holds the result it was given
\* unchanged when that has at most RESULT_LIMIT characters, and otherwise its
\* first RESULT_KEEP characters followed by the truncation marker; so no
\* tool-result entry is longer than RESULT_LIMIT characters. (prune_in is the
\* history before the result was added.)
C15_ResultTruncation ==
    /\ \A j \in DOMAIN history :
          history[j].role = "tool" =>
             LET c == history[j].content
             IN  /\ StrLength(c) <= RESULT_LIMIT
                 /\ IF c.len <= RESULT_LIMIT
                    THEN c.kept = c.len /\ ~c.marker
                    ELSE c.kept = RESULT_KEEP /\ c.marker
    /\ pc = "add1" =>
          /\ Len(history) = Len(prune_in) + 1
          /\ SubSeq(history, 1, Len(prune_in)) = prune_in
          /\ Last(history).role = "tool"
          /\ Last(history).tool_call_id = Len(history)

C15_Witness ==
    /\ pc = "add1" /\ Len(history) >= 2
    /\ Last(history).content.len = RESULT_LIMIT + 1
    /\ Last(history).content.hint # ""
    /\ Last(history).content.marker
    /\ StrLength(Last(history).content) = RESULT_KEEP + MARKER_LEN

----------------------------------------------------------------------------
(* AccessibilityParser: strings are sequences of characters *)

INTERACTIVE_ROLES ==
    {"button", "link", "textbox", "searchbox", "combobox", "checkbox",
     "radio", "slider", "tab", "menuitem", "switch", "treeitem"}
CONTEXT_ROLES == {"heading", "img", "statictext", "text", "paragraph", "listitem"}

ElementInfo(id, r, name) == [id |-> id, role |-> r, name |-> name]

\* str.strip()
IsSpace(c) == c \in {" ", "\n"}
RECURSIVE LStrip(_)
LStrip(str) == IF str # <<>> /\ IsSpace(Head(str)) THEN LStrip(Tail(str)) ELSE str
Strip(str) == Reversed(LStrip(Reversed(LStrip(str))))

\* " ".join(texts)
RECURSIVE Join(_)
Join(texts) ==
    IF texts = <<>> THEN <<>>
    ELSE IF Len(texts) = 1 THEN texts[1]
    ELSE texts[1] \o <<" ">> \o Join(Tail(texts))

NonEmpty(t) == t # <<>>

\* _collect_text: a child with a name gives its name, a child without one
\* gives the text collected from its own children
RECURSIVE CollectParts(_)
CollectText(children) == Strip(Join(SelectSeq(CollectParts(children), NonEmpty)))
CollectParts(children) ==
    IF children = <<>> THEN <<>>
    ELSE <<IF Strip(Head(children).name) # <<>>
           THEN Strip(Head(children).name)
           ELSE CollectText(Head(children).children)>>
         \o CollectParts(Tail(children))

\* name.replace("\n", " "), cut to 80 characters
DisplayName(name) ==
    LET flat == [j \in 1..Len(name) |-> IF name[j] = "\n" THEN " " ELSE name[j]]
    IN  IF Len(flat) > 80 THEN SubSeq(flat, 1, 77) \o <<".", ".", ".">> ELSE flat

HasCurrency(str) == \E j \in 1..Len(str) : str[j] \in {"$"}

\* len(self.elements_map) and self.elements_map[key] = info on the dict
DictLen(map) == Cardinality(DOMAIN map)
DictSet(map, key, info) ==
    [j \in DOMAIN map \cup {key} |-> IF j = key THEN info ELSE map[j]]

CapReached_late(map) == DictLen(map) > ELEMENT_CAP
CapReached(map) == DictLen(map) >= ELEMENT_CAP

\* _traverse: st holds self.elements_map and the report
RECURSIVE Traverse(_, _), TraverseAll(_, _)
TraverseAll(children, st) ==
    IF children = <<>> THEN st
    ELSE TraverseAll(Tail(children), Traverse(Head(children), st))
Traverse(node, st) ==
    IF CapReached(st.map) THEN st
    ELSE
    LET r == node.role
        children == node.children
        own == Strip(node.name)
        name == IF own = <<>> /\ children # <<>> /\ r \in INTERACTIVE_ROLES
                THEN CollectText(children) ELSE own
        is_interactive == r \in INTERACTIVE_ROLES
        is_heading == r = "heading"
        is_content == r \in CONTEXT_ROLES /\ name # <<>> /\ Len(name) > 2
    IN  IF ~(is_interactive \/ is_heading \/ is_content)
        THEN TraverseAll(children, st)
        ELSE
        LET name2 == IF r \in {"textbox", "searchbox"} /\ name = <<>> /\ node.value # <<>>
                     THEN <<"[", "V", ":">> \o node.value \o <<"]">>
                     ELSE name
            display_name == DisplayName(name2)
            el_id == DictLen(st.map) + 1
            map2 == IF is_interactive
                    THEN DictSet(st.map, el_id, ElementInfo(el_id, r, name2))
                    ELSE st.map
            line == IF is_heading THEN <<[kind |-> "heading", id |-> 0, text |-> display_name]>>
                    ELSE IF is_interactive
                    THEN <<[kind |-> "element", id |-> el_id, text |-> display_name]>>
                    ELSE IF HasCurrency(display_name) \/ Len(display_name) > 20
                    THEN <<[kind |-> "txt", id |-> 0, text |-> display_name]>>
                    ELSE <<>>
        IN  TraverseAll(children, [map |-> map2, report |-> st.report \o line])

\* the trees a page can show
Buy == <<"B", "u", "y">>
Home == <<"H", "o", "m", "e">>
Cart == <<"C", "a", "r", "t">>
Add == <<"A", "d", "d">>
ToCart == <<"t", "o", " ", "c", "a", "r", "t">>
Results == <<"R", "e", "s", "u", "l", "t", "s">>
Leaf(r, name) == Node(r, name, <<>>, <<>>)
Trees ==
    << Node("generic", <<>>, <<>>, <<Leaf("button", Buy), Leaf("link", Home)>>),
       Node("generic", <<>>, <<>>,
            <<Leaf("link", Cart), Leaf("button", Buy), Leaf("link", Home)>>),
       Node("heading", Results, <<>>, <<Leaf("button", Buy)>>),
       Node("button", <<>>, <<>>,
            <<Leaf("statictext", Add),
              Node("generic", <<>>, <<>>, <<Leaf("statictext", ToCart)>>),
              Node("searchbox", <<" ">>, Cart, <<>>)>>),
       Node("generic", <<>>, <<>>, <<Leaf("statictext", Add)>>) >>

PageTrees == {NoTree} \cup {Trees[j] : j \in 1..Len(Trees)}

\* element ids the model puts into click_element and type_text
ElementIds == 1..3

NoEl == ElementInfo(0, None, <<>>)
\* what the last browser call looked up, returned and tried
NoLookup ==
    [tool |-> None, id |-> 0, found |-> FALSE, el |-> NoEl, stale |-> FALSE,
     result |-> None, tried |-> 0]

BrowserInit ==
    /\ pc = "browser" /\ profile = "any" /\ i = 0 /\ role = None
    /\ history = <<>> /\ plan = <<>> /\ notes = <<>> /\ has_planned = FALSE
    /\ last_action = NoAction /\ repeated_action_count = 0
    /\ turn = <<>> /\ k = 1 /\ requests = 0
    /\ ev = Event("init", 0, None, <<>>) /\ run_of = NoRun
    /\ prune_in = <<>> /\ prune_once = <<>>
    /\ snapshot \in PageTrees
    /\ elements_map = <<>> /\ issued = <<>> /\ scan_no = 0
    /\ click = NoLookup
    /\ TabsAtStart

\* the page changes: navigation, or the page updates itself
PageChanges ==
    /\ snapshot' \in PageTrees
    /\ snapshot' # snapshot
    /\ click' = NoLookup
    /\ UNCHANGED <<agent_vars, prune_vars, elements_map, issued, scan_no, tab_vars>>

\* AccessibilityParser.scan behind BrowserService.scan_page: the map is
\* cleared, then filled from the snapshot unless taking it fails or it is empty.
\* issued keeps the ids of the scan before and what they denoted.
ScanPage ==
    /\ scan_no < MaxScans
    /\ scan_no' = scan_no + 1
    /\ issued' = elements_map
    /\ \E raised \in BOOLEAN :
         elements_map' =
            IF raised \/ snapshot = NoTree THEN <<>>
            ELSE Traverse(snapshot, [map |-> <<>>, report |-> <<>>]).map
    /\ click' = NoLookup
    /\ UNCHANGED <<agent_vars, prune_vars, snapshot, tab_vars>>

\* self.parser.elements_map.get(element_id)
Get(map, element_id) ==
    IF element_id \in DOMAIN map THEN map[element_id] ELSE NoEl

\* an id of the scan before that the current scan did not give to the same element
Stale(element_id) ==
    /\ scan_no >= 2
    /\ element_id \in DOMAIN issued
    /\ Get(elements_map, element_id) # issued[element_id]

Lookup(tool, element_id, result, tried) ==
    [tool |-> tool, id |-> element_id,
     found |-> Get(elements_map, element_id) # NoEl,
     el |-> Get(elements_map, element_id),
     stale |-> Stale(element_id),
     result |-> result, tried |-> tried]

\* if not el_info
NotFound_never(el_info) == FALSE
NotFound(el_info) == el_info = NoEl

\* What click_element does with a map entry: the locator finds nothing, the
\* standard click works, or the forced one, or the injected one, or none, or
\* a call outside the try blocks raises.
ClickOutcomes == {"disappeared", "standard", "forced", "js", "fail", "raise"}
Clicked(outcome) == outcome \in {"standard", "forced", "js"}
\* the click strategies attempted
Tried(outcome) ==
    CASE outcome = "standard" -> 1
      [] outcome = "forced" -> 2
      [] outcome \in {"js", "fail"} -> 3
      [] OTHER -> 0
ClickText(outcome) ==
    CASE Clicked(outcome) -> "Clicked"
      [] outcome = "disappeared" -> "Error: Element disappeared from DOM"
      [] outcome = "fail" -> "CRITICAL FAIL"
      [] OTHER -> "raise"

\* BrowserService.click_element: not found, or the click strategies on the
\* element located by the role and name of the map entry; a click that
\* worked can change the page
ClickElement ==
    /\ \E element_id \in ElementIds :
         IF NotFound(Get(elements_map, element_id))
         THEN /\ click' = Lookup("click_element", element_id, "Error: ID not found", 0)
              /\ snapshot' = snapshot
         ELSE \E outcome \in ClickOutcomes :
                /\ click' = Lookup("click_element", element_id,
                                   ClickText(outcome), Tried(outcome))
                /\ IF Clicked(outcome)
                   THEN snapshot' \in PageTrees
                   ELSE snapshot' = snapshot
    /\ UNCHANGED <<agent_vars, prune_vars, elements_map, issued, scan_no, tab_vars>>

\* BrowserService.type_text: not found, or click, fill and ENTER on the element
TypeText ==
    /\ \E element_id \in ElementIds :
         IF NotFound(Get(elements_map, element_id))
         THEN /\ click' = Lookup("type_text", element_id, "ID not found.", 0)
              /\ snapshot' = snapshot
         ELSE \/ /\ click' = Lookup("type_text", element_id, "Typed", 1)
                 /\ snapshot' \in PageTrees
              \/ /\ click' = Lookup("type_text", element_id, "Typing failed", 1)
                 /\ snapshot' = snapshot
    /\ UNCHANGED <<agent_vars, prune_vars, elements_map, issued, scan_no, tab_vars>>

BrowserNext == PageChanges \/ ScanPage \/ ClickElement \/ TypeText

BrowserSpec == BrowserInit /\ [][BrowserNext]_vars

----------------------------------------------------------------------------
(* AccessibilityParser.scan as a function of the tree *)

\* The trees given to the scan: every tree of three levels whose inner nodes
\* are interactive, transparent, headings or content and have up to two
\* children.
RoleName(r) ==
    CASE r = "button" -> Buy
      [] r = "link" -> Home
      [] r = "heading" -> Results
      [] r = "statictext" -> ToCart
      [] OTHER -> <<>>
InnerRoles == {"button", "link", "generic", "heading", "statictext"}
LeafNodes == {Leaf(r, RoleName(r)) : r \in {"button", "link", "statictext"}}
UpToTwo(S) == {<<>>} \cup {<<a>> : a \in S} \cup {<<a, b>> : a \in S, b \in S}
MidNodes == {Node(r, RoleName(r), <<>>, cs) : r \in InnerRoles, cs \in UpToTwo(LeafNodes)}
ScanTrees == {Node(r, RoleName(r), <<>>, cs) : r \in InnerRoles, cs \in UpToTwo(MidNodes)}

\* and the trees of an unnamed button over named and unnamed nodes
NameLeaves == {Leaf("statictext", nm) : nm \in {<<>>, ToCart, <<" ">>}}
NameMid ==
    {Node(r, nm, <<>>, cs) :
        r \in {"generic", "statictext"}, nm \in {<<>>, Add}, cs \in UpToTwo(NameLeaves)}
NameTrees == {Node("button", <<>>, <<>>, cs) : cs \in UpToTwo(NameMid)}

ScanInit ==
    /\ pc = "scan" /\ profile = "any" /\ i = 0 /\ role = None
    /\ history = <<>> /\ plan = <<>> /\ notes = <<>> /\ has_planned = FALSE
    /\ last_action = NoAction /\ repeated_action_count = 0
    /\ turn = <<>> /\ k = 1 /\ requests = 0
    /\ ev = Event("init", 0, None, <<>>) /\ run_of = NoRun
    /\ prune_in = <<>> /\ prune_once = <<>>
    /\ snapshot \in ScanTrees \cup NameTrees
    /\ elements_map = <<>> /\ issued = <<>> /\ scan_no = 0
    /\ click = NoLookup
    /\ TabsAtStart

ScanSpec == ScanInit /\ [][ScanPage]_vars

\* the nodes of a tree in depth-first pre-order
RECURSIVE PreOrder(_), PreOrderAll(_)
PreOrder(node) == <<node>> \o PreOrderAll(node.children)
PreOrderAll(children) ==
    IF children = <<>> THEN <<>>
    ELSE PreOrder(Head(children)) \o PreOrderAll(Tail(children))

IsInteractive(node) == node.role \in INTERACTIVE_ROLES
InteractiveNodes(tree) == SelectSeq(PreOrder(tree), IsInteractive)
Min(a, b) == IF a <= b THEN a ELSE b
StrippedName(node) == Strip(node.name)

\* C13: after a scan the elements map has at most ELEMENT_CAP entries and its
\* keys are exactly 1..n, each entry carrying its key as id; unless the scan
\* failed before the traversal (empty map), entry j is the j-th interactive
\* node of the tree in depth-first pre-order, and n is the number of
\* interactive nodes of the tree or the cap, whichever is smaller: below the
\* cap every interactive node is registered, whatever its ancestors are
\* (an entry is told by its role and, when the node has one, its name).
C13_CapAndDenseIds ==
    scan_no > 0 =>
        LET n == DictLen(elements_map)
            nodes == InteractiveNodes(snapshot)
        IN  /\ n <= ELEMENT_CAP
            /\ DOMAIN elements_map = 1..n
            /\ \A j \in 1..n : elements_map[j].id = j
            /\ \/ elements_map = <<>>
               \/ /\ n = Min(Len(nodes), ELEMENT_CAP)
                  /\ \A j \in 1..n :
                        /\ elements_map[j].role = nodes[j].role
                        /\ StrippedName(nodes[j]) # <<>> =>
                              elements_map[j].name = StrippedName(nodes[j])

\* the cap cuts a tree of more interactive nodes, among them one below a
\* heading, one below a content node and one below an interactive node
C13_Witness ==
    /\ scan_no > 0
    /\ DictLen(elements_map) = ELEMENT_CAP
    /\ Len(InteractiveNodes(snapshot)) > ELEMENT_CAP
    /\ snapshot.role = "heading"
    /\ Len(snapshot.children) = 2
    /\ snapshot.children[1].role = "statictext"
    /\ snapshot.children[1].children = <<Leaf("link", Home), Leaf("button", Buy)>>
    /\ snapshot.children[2].role = "button"
    /\ elements_map[3].role = "button"

\* the non-empty names of the descendants of a node, depth-first
DescendantNames(node) ==
    SelectSeq([j \in 1..Len(PreOrderAll(node.children)) |->
                   StrippedName(PreOrderAll(node.children)[j])], NonEmpty)

\* C14 as stated: an interactive node without a name of its own, some
\* descendant of which has a name, is registered under the space-joined
\* names of all its descendants, at every depth, in depth-first order.
C14_NameFromAllDescendants ==
    (scan_no > 0 /\ elements_map # <<>>) =>
        \A j \in DOMAIN elements_map :
            LET node == InteractiveNodes(snapshot)[j]
            IN  (StrippedName(node) = <<>> /\ DescendantNames(node) # <<>>) =>
                    elements_map[j].name = Join(DescendantNames(node))

----------------------------------------------------------------------------
(* Element ids across scans *)

\* C19: click_element with an id that is not a key of the current elements
\* map (nothing scanned yet, the last scan failed, or the id is beyond the
\* scanned elements) returns the not-found error, tries no click strategy,
\* does not raise, and leaves the elements map and the page as they are.
C19_UnknownIdIsPureError ==
    [][(click'.tool = "click_element" /\ click'.id \notin DOMAIN elements_map) =>
          /\ click'.result = "Error: ID not found"
          /\ click'.tried = 0
          /\ ~click'.found
          /\ elements_map' = elements_map
          /\ snapshot' = snapshot]_vars

\* an id is looked up after a scan that failed on a page with elements
C19_Witness ==
    /\ click.tool = "click_element" /\ click.result = "Error: ID not found"
    /\ scan_no = 1 /\ elements_map = <<>>
    /\ InteractiveNodes(snapshot) # <<>>

\* C7: click_element or type_text with an id of an earlier scan, which the
\* current scan did not give to the same element, returns not-found and so
\* acts on no element other than the one the id denoted when it was issued.
C7_StaleIdFailsLookup ==
    (click.tool # None /\ click.stale) =>
        /\ ~click.found
        /\ click.el \in {NoEl, issued[click.id]}

----------------------------------------------------------------------------
(* Tabs *)

\* tabs opened in one browser session, after the first
MaxTabs == 2
\* the indices the model puts into switch_tab
TabIndices == (0 - 1)..(MaxTabs + 1)

TabCall(tool, idx, result) ==
    [NoLookup EXCEPT !.tool = tool, !.id = idx, !.result = result]

TabInit ==
    /\ pc = "tabs" /\ profile = "any" /\ i = 0 /\ role = None
    /\ history = <<>> /\ plan = <<>> /\ notes = <<>> /\ has_planned = FALSE
    /\ last_action = NoAction /\ repeated_action_count = 0
    /\ turn = <<>> /\ k = 1 /\ requests = 0
    /\ ev = Event("init", 0, None, <<>>) /\ run_of = NoRun
    /\ prune_in = <<>> /\ prune_once = <<>>
    /\ snapshot = NoTree
    /\ elements_map = <<>> /\ issued = <<>> /\ scan_no = 0
    /\ click = NoLookup
    /\ TabsAtStart

IsOpen(tab) == \E j \in DOMAIN pages : pages[j] = tab
\* a click opens a new tab: the context lists it and starts _handle_new_tab
TabOpens ==
    /\ scan_no < MaxTabs
    /\ scan_no' = scan_no + 1
    /\ pages' = Append(pages, scan_no + 2)
    /\ pending' = pending \cup {scan_no + 2}
    /\ click' = NoLookup
    /\ UNCHANGED <<agent_vars, prune_vars, snapshot, elements_map, issued, page>>

\* _handle_new_tab: the new tab has loaded and becomes the active page; the
\* wait raises when the tab has been closed meanwhile
HandleNewTab ==
    /\ \E tab \in pending :
         /\ pending' = pending \ {tab}
         /\ page' = IF IsOpen(tab) THEN tab ELSE page
    /\ click' = NoLookup
    /\ UNCHANGED <<agent_vars, prune_vars, snapshot, elements_map, issued,
                   scan_no, pages>>

\* BrowserService.get_tabs
GetTabs ==
    /\ click' = TabCall("get_tabs", 0, "tabs")
    /\ UNCHANGED <<agent_vars, prune_vars, snapshot, elements_map, issued,
                   scan_no, tab_vars>>

\* 0 <= idx < len(self.context.pages)
ValidIndex(idx) == 0 <= idx /\ idx < Len(pages)

\* BrowserService.switch_tab
SwitchTab ==
    /\ \E idx \in TabIndices :
         IF ~ValidIndex(idx)
         THEN /\ click' = TabCall("switch_tab", idx, "Invalid tab index.")
              /\ page' = page
         ELSE /\ click' = TabCall("switch_tab", idx, "Active tab")
              /\ page' = pages[idx + 1]
    /\ UNCHANGED <<agent_vars, prune_vars, snapshot, elements_map, issued,
                   scan_no, pages, pending>>

\* len(self.context.pages) <= 1
CannotClose_never(ps) == FALSE
CannotClose(ps) == Len(ps) <= 1

\* the context's pages once tab is closed
Without(ps, tab) == SelectSeq(ps, LAMBDA t : t # tab)

\* BrowserService.close_tab: the active page is closed and the last of the
\* context's pages becomes the active page (pages[-1] raises on an empty list)
CloseTab ==
    /\ IF CannotClose(pages)
       THEN /\ click' = TabCall("close_tab", 0, "Cannot close last tab.")
            /\ UNCHANGED <<pages, page>>
       ELSE /\ pages' = Without(pages, page)
            /\ IF Without(pages, page) = <<>>
               THEN /\ click' = TabCall("close_tab", 0, "raise")
                    /\ page' = page
               ELSE /\ click' = TabCall("close_tab", 0, "Tab closed.")
                    /\ page' = Last(Without(pages, page))
    /\ UNCHANGED <<agent_vars, prune_vars, snapshot, elements_map, issued,
                   scan_no, pending>>

TabNext == TabOpens \/ HandleNewTab \/ GetTabs \/ SwitchTab \/ CloseTab

TabSpec == TabInit /\ [][TabNext]_vars

\* C21: at least one tab is open at all times and the active page is one of
\* the open tabs; close_tab with one tab open refuses and closes nothing, and
\* with more tabs open it closes exactly the active one and makes an open tab
\* the active page; switch_tab with an index out of range refuses and leaves
\* the active page as it is.
C21_LastTabStaysOpen ==
    /\ [](Len(pages) >= 1 /\ IsOpen(page))
    /\ [][click'.tool = "close_tab" =>
            IF Len(pages) = 1
            THEN /\ click'.result = "Cannot close last tab."
                 /\ pages' = pages /\ page' = page
            ELSE /\ click'.result = "Tab closed."
                 /\ Len(pages') = Len(pages) - 1
                 /\ \A j \in DOMAIN pages' : pages'[j] # page
                 /\ \E j \in DOMAIN pages' : pages'[j] = page']_vars
    /\ [][(click'.tool = "switch_tab" /\ ~(0 <= click'.id /\ click'.id < Len(pages))) =>
            /\ click'.result = "Invalid tab index."
            /\ page' = page /\ pages' = pages]_vars

\* the only tab left after closings is asked to close
C21_Witness ==
    /\ click.tool = "close_tab" /\ click.result = "Cannot close last tab."
    /\ scan_no = MaxTabs /\ pages = <<2>> /\ page = 2

----------------------------------------------------------------------------
(* A turn without tool calls *)

IsNudgeStep == pc = "loop" /\ ev'.kind = "nudge"

\* C22: an iteration whose model turn carries no tool call appends exactly two
\* entries to the history kept by the pruning of the iteration: the assistant
\* turn and then one user message, which is the planner's reminder in PLANNER
\* mode and the worker's in WORKER mode; no call is dispatched, the plan, the
\* notes and the Loop Guard state stay as they are, and the iteration is
\* counted: the loop goes on with the next one or ends when none is left.
C22_NoToolTurnNudges ==
    [][IsNudgeStep =>
        /\ Len(history') >= 2
        /\ Len(history') - 2 <= Len(history)
        /\ SubSeq(history', 1, Len(history') - 2)
               = Suffix(history, Len(history') - 2)
        /\ history'[Len(history') - 1].role = "assistant"
        /\ history'[Len(history') - 1].tool_calls = <<>>
        /\ Last(history').role = "user"
        /\ Last(history').content.text =
               IF plan = <<>> /\ ~has_planned
               THEN "You must call 'set_plan' or 'ask_user'."
               ELSE "Action required. Please call a tool to proceed."
        /\ ev'.out = None /\ run_of' = run_of
        /\ plan' = plan /\ notes' = notes /\ has_planned' = has_planned
        /\ last_action' = last_action
        /\ repeated_action_count' = repeated_action_count
        /\ i' = i + 1
        /\ pc' = IF i + 1 < MAX_ITERATIONS THEN "loop" ELSE "aborted"]_vars

\* a planner's turn without tool calls, after a call that left a note and a
\* recorded action, with an earlier entry kept in the history
C22_Witness ==
    /\ ev.kind = "nudge" /\ role = "PLANNER" /\ pc = "loop"
    /\ Len(history) = 3 /\ Last(history).role = "user"
    /\ notes # <<>> /\ last_action # NoAction

\* a worker's turn without tool calls in the last iteration of the budget
C22_WorkerWitness ==
    /\ ev.kind = "nudge" /\ role = "WORKER" /\ pc = "aborted"
    /\ Len(history) = 3 /\ plan # <<>> /\ last_action # NoAction

----------------------------------------------------------------------------
(* The recorded action after a call *)

\* C23 as stated: after every tool call for which a fingerprint was computed
\* the recorded last action is that call's fingerprint, whether the dispatch
\* returned, was overridden or raised.
C23_LastActionIsLatestFingerprint ==
    run_of.len > 0 => last_action = run_of.act

\* C23, its consequence as stated: of the consecutive selections of one action
\* whose dispatch raises every time, those from the third repeat on are
\* overridden.
C23_RaisingRepeatOverridden ==
    (run_of.fresh /\ run_of.len > LOOP_LIMIT) => run_of.out = "override"

----------------------------------------------------------------------------
(* Tool-call pairs in the pruned history *)

\* every tool result of h comes after the assistant entry that made its call
PairsWhole(h) ==
    \A j \in DOMAIN h :
        h[j].role = "tool" =>
            \E m \in 1..(j - 1) :
                /\ h[m].role = "assistant"
                /\ \E c \in DOMAIN h[m].tool_calls :
                       h[m].tool_calls[c] = h[j].tool_call_id

\* C24 as stated: the pruning at the top of an iteration keeps tool-call pairs
\* whole: when every tool result of the history follows the assistant entry
\* of its call, the same holds of the pruned history that is sent to the model.
C24_PruningKeepsPairsWhole ==
    (pc = "loop" /\ PairsWhole(history)) => PairsWhole(PruneHistory(history))

----------------------------------------------------------------------------
(* The mode and the dispatch *)

\* a call goes through the Loop Guard while the iteration is in mode r
IsCallIn(r) == pc = "calls" /\ role = r /\ ev'.kind = "call"
IsSetPlanIn(r) == pc = "calls" /\ role = r /\ ev'.kind = "set_plan"

C25_WorkerWitness ==
    /\ role = "WORKER" /\ ev.kind = "set_plan"
    /\ ev.old # <<>> /\ plan = ev.steps /\ plan # ev.old /\ history = <<>>

====
